---- MODULE Spec2Model ----
(***************************************************************************)
(* A model of mcp-server-file-search: the MCP tool handler (server.py),    *)
(* the three search providers (search_interface.py) and the binding over   *)
(* the Everything SDK (everything_sdk.py).                                 *)
(*                                                                         *)
(* Text is modelled as a sequence of one-character strings, so that the    *)
(* string operations of the code (replace, splitlines, basename, pathlib)  *)
(* are computed and not assumed.  An optional value (Python's None) is     *)
(* the empty tuple <<>>, a present value v is <<v>>.                       *)
(***************************************************************************)
EXTENDS Integers, Sequences, FiniteSets, TLC

(***************************************************************************)
(* Bounds of the model.                                                    *)
(***************************************************************************)
\* The most results a backend reports (native) or lines it prints (external).
MaxLines == 2
\* max_results is drawn from 1..SmallMax besides the limits of its range.
SmallMax == 2
\* The largest error code the native library reports (7 is the last named one).
MaxErrorCode == 8
\* The tick-within-second values of the timestamps that are round-tripped.
MaxTick == 450
\* The query texts that are normalized on their own have up to MaxQueryLen
\* characters.
MaxQueryLen == 4

(***************************************************************************)
(* Program constants.                                                      *)
(***************************************************************************)
EVERYTHING_OK == 0
EVERYTHING_ERROR_MEMORY == 1
EVERYTHING_ERROR_IPC == 2
EVERYTHING_ERROR_REGISTERCLASSEX == 3
EVERYTHING_ERROR_CREATEWINDOW == 4
EVERYTHING_ERROR_CREATETHREAD == 5
EVERYTHING_ERROR_INVALIDINDEX == 6
EVERYTHING_ERROR_INVALIDCALL == 7

EVERYTHING_REQUEST_FILE_NAME == 1
EVERYTHING_REQUEST_PATH == 2
EVERYTHING_REQUEST_EXTENSION == 8
EVERYTHING_REQUEST_SIZE == 16
EVERYTHING_REQUEST_DATE_CREATED == 32
EVERYTHING_REQUEST_DATE_MODIFIED == 64
EVERYTHING_REQUEST_DATE_ACCESSED == 128
EVERYTHING_REQUEST_ATTRIBUTES == 256
EVERYTHING_REQUEST_RUN_COUNT == 1024
EVERYTHING_REQUEST_HIGHLIGHTED_FILE_NAME == 8192
EVERYTHING_REQUEST_HIGHLIGHTED_PATH == 16384

EVERYTHING_SORT_NAME_ASCENDING == 1
EVERYTHING_SORT_SIZE_DESCENDING == 6
EVERYTHING_SORT_DATE_MODIFIED_DESCENDING == 14

\* BaseSearchQuery.max_results: Field(default=100, ge=1, le=1000).
MAX_RESULTS_DEFAULT == 100
MAX_RESULTS_GE == 1
MAX_RESULTS_LE == 1000

\* WINDOWS_TICKS = int(1/10**-7): ticks of 100 ns in a second.
WINDOWS_TICKS == 10000000
\* EPOCH_DIFF = 11644473600 seconds from 1601-01-01 to 1970-01-01, written in
\* base WINDOWS_TICKS as EPOCH_DIFF_HI * WINDOWS_TICKS + EPOCH_DIFF_LO.
EPOCH_DIFF_HI == 1164
EPOCH_DIFF_LO == 4473600

(***************************************************************************)
(* Optional values.                                                        *)
(***************************************************************************)
None == <<>>
Some(v) == <<v>>
IsNone(o) == o = <<>>
Get(o) == o[1]

Min(a, b) == IF a <= b THEN a ELSE b

(***************************************************************************)
(* Text.                                                                   *)
(***************************************************************************)
StartsWith(s, p) == Len(s) >= Len(p) /\ SubSeq(s, 1, Len(p)) = p

\* str.replace(old, new): every non-overlapping occurrence, left to right.
RECURSIVE Replace(_, _, _)
Replace(s, old, new) ==
  IF s = <<>> THEN <<>>
  ELSE IF StartsWith(s, old)
       THEN new \o Replace(SubSeq(s, Len(old) + 1, Len(s)), old, new)
       ELSE <<Head(s)>> \o Replace(Tail(s), old, new)

\* The index of the first c in s, 0 when there is none.
RECURSIVE Find(_, _)
Find(s, c) ==
  IF s = <<>> THEN 0
  ELSE IF Head(s) = c THEN 1
  ELSE LET r == Find(Tail(s), c) IN IF r = 0 THEN 0 ELSE r + 1

\* The index of the last c in s, 0 when there is none (str.rfind, 1-based).
RECURSIVE RFind(_, _)
RFind(s, c) ==
  IF s = <<>> THEN 0
  ELSE IF s[Len(s)] = c THEN Len(s)
  ELSE RFind(SubSeq(s, 1, Len(s) - 1), c)

\* s.split(c): the pieces between the occurrences of c.
RECURSIVE Split(_, _)
Split(s, c) ==
  LET i == Find(s, c) IN
  IF i = 0 THEN <<s>>
  ELSE <<SubSeq(s, 1, i - 1)>> \o Split(SubSeq(s, i + 1, Len(s)), c)

\* c.join(pieces).
RECURSIVE Join(_, _)
Join(pieces, c) ==
  IF pieces = <<>> THEN <<>>
  ELSE IF Len(pieces) = 1 THEN pieces[1]
  ELSE pieces[1] \o <<c>> \o Join(Tail(pieces), c)

\* What the external tool writes for a list of lines: each followed by "\n".
RECURSIVE PrintLines(_)
PrintLines(lines) ==
  IF lines = <<>> THEN <<>>
  ELSE lines[1] \o <<"\n">> \o PrintLines(Tail(lines))

\* str.splitlines() for text whose only line boundary is "\n": no empty last
\* piece after a final "\n".
splitlines(text) ==
  IF text = <<>> THEN <<>>
  ELSE LET pieces == Split(text, "\n") IN
       IF text[Len(text)] = "\n" THEN SubSeq(pieces, 1, Len(pieces) - 1)
       ELSE pieces

\* The decimal digits of a natural number (str(n)).
Digits == <<"0", "1", "2", "3", "4", "5", "6", "7", "8", "9">>
RECURSIVE IntToStr(_)
IntToStr(n) ==
  IF n < 10 THEN <<Digits[n + 1]>>
  ELSE IntToStr(n \div 10) \o <<Digits[(n % 10) + 1]>>

(***************************************************************************)
(* pathlib.Path on a POSIX host, and os.path.basename.                     *)
(***************************************************************************)
\* The components pathlib keeps: the empty ones and "." are dropped.
PathParts(p) ==
  SelectSeq(Split(p, "/"), LAMBDA c : c # <<>> /\ c # <<".">>)

\* The root pathlib keeps: "/" for a leading slash, "//" for exactly two.
PathRoot(p) ==
  IF StartsWith(p, <<"/", "/">>) /\ ~StartsWith(p, <<"/", "/", "/">>)
  THEN <<"/", "/">>
  ELSE IF StartsWith(p, <<"/">>) THEN <<"/">> ELSE <<>>

\* str(Path(p)).
PathStr(p) ==
  LET s == PathRoot(p) \o Join(PathParts(p), "/") IN
  IF s = <<>> THEN <<".">> ELSE s

\* Path(p).name: the last component, empty when there is none.
PathName(p) ==
  LET parts == PathParts(p) IN
  IF parts = <<>> THEN <<>> ELSE parts[Len(parts)]

\* Path(p).suffix: from the last dot of the name, unless the dot is the
\* name's first or last character.
PathSuffix(p) ==
  LET name == PathName(p)
      i == RFind(name, ".")
  IN IF 1 < i /\ i < Len(name) THEN SubSeq(name, i, Len(name)) ELSE <<>>

\* os.path.basename(p): what follows the last slash.
basename(p) == SubSeq(p, RFind(p, "/") + 1, Len(p))

(***************************************************************************)
(* Windows FILETIME values.  A 64-bit tick count t is written in base      *)
(* WINDOWS_TICKS as [hi, mid, lo]: t = hi*10^14 + mid*10^7 + lo, so that   *)
(* hi*10^7 + mid is whole seconds since 1601 and lo the ticks in the       *)
(* second.                                                                 *)
(***************************************************************************)
FT(h, m, l) == [hi |-> h, mid |-> m, lo |-> l]
FtZero == FT(0, 0, 0)
\* ctypes c_ulonglong(...).value as a truth value: non-zero.
FtTruthy(t) == t # FtZero

\* WINDOWS_TICKS_TO_POSIX_EPOCH = EPOCH_DIFF * WINDOWS_TICKS.
WINDOWS_TICKS_TO_POSIX_EPOCH == FT(EPOCH_DIFF_HI, EPOCH_DIFF_LO, 0)

\* num/den rounded to the nearest integer, ties to the even one (IEEE 754
\* round-to-nearest-even, and Python's rounding of the microseconds).
RoundHalfEven(num, den) ==
  LET q == num \div den
      r == num % den
  IN IF 2 * r > den \/ (2 * r = den /\ q % 2 = 1) THEN q + 1 ELSE q

\* Lexicographic order of tick counts.
FtLess(a, b) ==
  \/ a.hi < b.hi
  \/ a.hi = b.hi /\ a.mid < b.mid
  \/ a.hi = b.hi /\ a.mid = b.mid /\ a.lo < b.lo

\* a - b in ticks, for tick counts less than 200 seconds apart.
FtDiff(a, b) ==
  ((a.hi - b.hi) * WINDOWS_TICKS + (a.mid - b.mid)) * WINDOWS_TICKS
    + (a.lo - b.lo)

\* Whole POSIX seconds of a tick count at or after 1970.
PosixSeconds(t) ==
  (t.hi - EPOCH_DIFF_HI) * WINDOWS_TICKS + (t.mid - EPOCH_DIFF_LO)

\* The timestamps _get_time is modelled for: POSIX seconds from 2^30 to
\* 2139999999, 2004-01-10 to 2037-10-24.  There the tick count lies in [2^56, 2^57),
\* where float64 values are 16 ticks apart, and the seconds lie in
\* [2^30, 2^31), where float64 values are 2^-22 seconds apart.
ModernFiletime(t) ==
  /\ t.hi - EPOCH_DIFF_HI \in 107..213
  /\ t.mid \in 0..(WINDOWS_TICKS - 1)
  /\ t.lo \in 0..(WINDOWS_TICKS - 1)
  /\ PosixSeconds(t) >= 1073741824

\* datetime.fromtimestamp raises for a year after 9999: tick counts from
\* 10000-01-01 on, 253402300800 seconds after 1970.
DATETIME_END == FT(26504, 6774400, 0)
GetTimeRaises(t) == ~FtLess(t, DATETIME_END)

\* float(filetime) in `filetime - WINDOWS_TICKS_TO_POSIX_EPOCH`: the int is
\* rounded to the nearest float64, a multiple of 16 ticks (ties to the even
\* multiple).  10^7 is a multiple of 32, so only lo decides the rounding.
FloatOfFiletime(t) ==
  LET l == RoundHalfEven(t.lo, 16) * 16 IN
  IF l >= WINDOWS_TICKS
  THEN IF t.mid + 1 >= WINDOWS_TICKS
       THEN FT(t.hi + 1, 0, l - WINDOWS_TICKS)
       ELSE FT(t.hi, t.mid + 1, l - WINDOWS_TICKS)
  ELSE FT(t.hi, t.mid, l)

\* The fraction of `(...) / WINDOWS_TICKS` as a float64 in [2^30, 2^31), in
\* units of 2^-22 seconds: lo * 2^22 / 10^7 = lo * 2^15 / 78125, rounded.
FloatSecondFraction(lo) == RoundHalfEven(lo * 32768, 78125)

\* A datetime: whole POSIX seconds and microseconds.  (fromtimestamp gives the
\* local civil time; the zone's offset is the same on the way back.)
DateTime(s, u) ==
  IF u >= 1000000 THEN [sec |-> s + 1, us |-> u - 1000000]
  ELSE [sec |-> s, us |-> u]

\* A conversion that cuts the microseconds off instead of rounding them.
FractionToMicroseconds_truncated(k) == (k * 15625) \div 65536

\* datetime.fromtimestamp(x): the fraction k * 2^-22 seconds in whole
\* microseconds, round(frac * 1e6) = k * 15625 / 65536 rounded half to even.
FractionToMicroseconds(k) == RoundHalfEven(k * 15625, 65536)

\* EverythingSDK._get_time, for a ModernFiletime.
get_time(filetime) ==
  LET f == FloatOfFiletime(filetime)
      k == FloatSecondFraction(f.lo)
  IN DateTime(PosixSeconds(f), FractionToMicroseconds(k))

\* The tick count of a datetime: the inverse of the decoding, exact.
FiletimeOf(dt) ==
  LET s == EPOCH_DIFF_LO + dt.sec IN
  FT(EPOCH_DIFF_HI + (s \div WINDOWS_TICKS), s % WINDOWS_TICKS, dt.us * 10)

Abs(x) == IF x < 0 THEN -x ELSE x

(***************************************************************************)
(* Parts of an argument vector or of a message: a literal of the code, a   *)
(* text that came from outside, or the words of a tool's stderr.           *)
(***************************************************************************)
Lit(s) == [lit |-> s]
Txt(t) == [txt |-> t]
Words(w) == [words |-> w]

(***************************************************************************)
(* The inputs.                                                             *)
(***************************************************************************)
\* The requests the transport runs as tasks of one event loop.
Tasks == {1, 2}

\* The hosts the server is started on: platform.system().lower() and what is
\* installed there.
Hosts ==
  { [system |-> "darwin", installed |-> {}],
    [system |-> "linux", installed |-> {"plocate"}],
    [system |-> "linux", installed |-> {"locate"}],
    [system |-> "linux", installed |-> {"plocate", "locate"}],
    [system |-> "linux", installed |-> {}],
    [system |-> "windows", installed |-> {"Everything64.dll"}],
    [system |-> "windows", installed |-> {}],
    [system |-> "freebsd", installed |-> {"locate"}] }

\* Query strings: a plain one and one with a forward slash.
Queries == { <<"a">>, <<"d", "/", "a">> }

\* WindowsSortOption: the values of the enumeration.
WindowsSortOption == (1..8) \cup (11..14)

\* WindowsSpecificParams(), LinuxSpecificParams(), MacSpecificParams(): the
\* defaults of the fields.
WindowsSpecificParams ==
  [match_path |-> FALSE, match_case |-> FALSE, match_whole_word |-> FALSE,
   match_regex |-> FALSE, sort_by |-> EVERYTHING_SORT_NAME_ASCENDING]
LinuxSpecificParams ==
  [ignore_case |-> TRUE, regex_search |-> FALSE, existing_files |-> TRUE,
   count_only |-> FALSE]
MacSpecificParams ==
  [live_updates |-> FALSE, search_directory |-> None, literal_query |-> FALSE,
   interpret_query |-> FALSE]

\* The windows_params a client sends: none, two valid bags, and one whose
\* sort_by is no WindowsSortOption.
WindowsParamChoices ==
  { None,
    Some([WindowsSpecificParams EXCEPT
            !.match_case = TRUE, !.sort_by = EVERYTHING_SORT_SIZE_DESCENDING]),
    Some([WindowsSpecificParams EXCEPT
            !.match_path = TRUE, !.match_whole_word = TRUE, !.match_regex = TRUE,
            !.sort_by = EVERYTHING_SORT_DATE_MODIFIED_DESCENDING]),
    Some([WindowsSpecificParams EXCEPT !.sort_by = 99]) }

\* A JSON value that is a number; a JSON value that is a text is a Txt.
Num(n) == [num |-> n]
IsNum(v) == DOMAIN v = {"num"}

\* The max_results a client sends: absent, a number in or out of range, or a
\* text that is no number.
MaxResultsChoices ==
  {None}
  \cup {Some(Num(n)) : n \in (0..SmallMax) \cup {MAX_RESULTS_LE, MAX_RESULTS_LE + 1}}
  \cup {Some(Txt(<<"m", "a", "n", "y">>))}

\* The 'base' dictionaries a client sends.  At most one of the two bags of the
\* external platforms is present; `unknown` is a key no model has a field for.
BaseChoices ==
  { [query |-> q, max_results |-> m, linux_params |-> b[1], mac_params |-> b[2],
     unknown |-> u] :
      q \in {None} \cup {Some(x) : x \in Queries},
      m \in MaxResultsChoices,
      b \in { <<None, None>>, <<Some(LinuxSpecificParams), None>>,
              <<None, Some(MacSpecificParams)>> },
      u \in {None, Some(1)} }

\* The arguments of a tool call; `unknown` is a key call_tool does not read.
ArgumentChoices ==
  { [base |-> b, windows_params |-> w, unknown |-> u] :
      b \in {None} \cup {Some(x) : x \in BaseChoices},
      w \in WindowsParamChoices,
      u \in {None, Some(1)} }

\* The lines an external tool prints: absolute paths of entries, the root,
\* and what is left of a path whose name holds a newline (a piece ending
\* with a slash, an empty line).
PathA == <<"/", "a">>
PathBT == <<"/", "d", "/", "b", ".", "t">>
PathRootDir == <<"/">>
PieceSlash == <<"/", "d", "/">>
PieceEmpty == <<>>
LinePool == {PathA, PathBT, PathRootDir, PieceSlash, PieceEmpty}

\* What the tool prints: up to MaxLines lines of the pool, repeats included.
RECURSIVE SeqsUpTo(_, _)
SeqsUpTo(S, n) ==
  IF n = 0 THEN {<<>>}
  ELSE LET shorter == SeqsUpTo(S, n - 1) IN
       shorter \cup {Append(s, x) : s \in {r \in shorter : Len(r) = n - 1}, x \in S}

\* The stderr of an external tool, as words; lower() of a word.
StderrPool ==
  { <<>>,
    <<"can not open the index: ", "No such file or directory">>,
    <<"Database", " is not built yet">>,
    <<"pattern: ", "invalid option">> }
lower(word) ==
  CASE word = "No such file or directory" -> "no such file or directory"
    [] word = "Database" -> "database"
    [] OTHER -> word
\* `needle in haystack.lower()`, for a stderr given as words.
InLower(needle, stderr) == \E i \in 1..Len(stderr) : lower(stderr[i]) = needle

\* os.stat of an entry that exists.
StatResult == [st_size |-> 0, st_ctime |-> 1700000000, st_mtime |-> 1700000001,
               st_atime |-> 1700000002]

\* The raw timestamps the native library writes: none, a present-day one, and
\* the all-ones value no datetime can hold.
FtPresent == FT(1334, 4473600, 3)
FtAllOnes == FT(184467, 4407370, 9551615)
RawTimes == {FtZero, FtPresent, FtAllOnes}

(***************************************************************************)
(* The state.                                                              *)
(***************************************************************************)
VARIABLES
  host,             \* the host the process runs on
  server,           \* "starting", "serving" or "failed"
  current_platform, \* serve's current_platform
  search_provider,  \* serve's search_provider: None until constructed
  dll,              \* the search state of the Everything library, shared
  running,          \* the task the event loop is running, 0 for none
  pc,               \* where each task is in call_tool
  frame,            \* the locals of each task's call
  response,         \* what each task's call returned
  tt                \* a timestamp being decoded and encoded again

vars == <<host, server, current_platform, search_provider, dll, running, pc,
          frame, response, tt>>

(***************************************************************************)
(* Exceptions: the class and what str(e) gives, as parts.                  *)
(***************************************************************************)
\* EverythingError._get_error_message.
get_error_message(error_code) ==
  CASE error_code = EVERYTHING_ERROR_MEMORY -> <<Lit("Failed to allocate memory")>>
    [] error_code = EVERYTHING_ERROR_IPC ->
         <<Lit("IPC failed (Everything service not running?)")>>
    [] error_code = EVERYTHING_ERROR_REGISTERCLASSEX ->
         <<Lit("Failed to register window class")>>
    [] error_code = EVERYTHING_ERROR_CREATEWINDOW -> <<Lit("Failed to create window")>>
    [] error_code = EVERYTHING_ERROR_CREATETHREAD -> <<Lit("Failed to create thread")>>
    [] error_code = EVERYTHING_ERROR_INVALIDINDEX -> <<Lit("Invalid index")>>
    [] error_code = EVERYTHING_ERROR_INVALIDCALL -> <<Lit("Invalid call")>>
    [] OTHER -> <<Lit("Unknown error: "), Txt(IntToStr(error_code))>>

\* EverythingError(error_code).
EverythingError(error_code) ==
  [type |-> "EverythingError", error_code |-> error_code,
   message |-> get_error_message(error_code)]

\* Any other exception: its class and its message.
Exception(type, message) == [type |-> type, message |-> message]

\* A binding that does not look the error up: the fallback alone.
check_error_untyped(error_code) ==
  Exception("RuntimeError", <<Lit("Search query failed")>>)

\* _check_error, then the `raise RuntimeError` that follows it: what a failed
\* query raises when the library's last error is error_code.
check_error(error_code) ==
  IF error_code # EVERYTHING_OK
  THEN EverythingError(error_code)
  ELSE Exception("RuntimeError", <<Lit("Search query failed")>>)

(***************************************************************************)
(* The Everything library: one search state for the whole process.         *)
(***************************************************************************)
\* The state after Everything_Reset, and when the library is loaded: no
\* search, no toggle, all results (max is 0xFFFFFFFF, written -1), sorted by
\* name, file name and path requested, no result list.
DllDefault ==
  [search |-> <<>>, match_path |-> FALSE, match_case |-> FALSE,
   match_whole_word |-> FALSE, regex |-> FALSE, max |-> -1,
   sort |-> EVERYTHING_SORT_NAME_ASCENDING,
   request_flags |-> EVERYTHING_REQUEST_FILE_NAME + EVERYTHING_REQUEST_PATH,
   num_results |-> 0, replied |-> None, last_error |-> EVERYTHING_OK]

\* The request flags search_files sets when the caller gives none: the OR of
\* eleven distinct bits.
DefaultRequestFlags ==
  EVERYTHING_REQUEST_FILE_NAME + EVERYTHING_REQUEST_PATH
  + EVERYTHING_REQUEST_EXTENSION + EVERYTHING_REQUEST_SIZE
  + EVERYTHING_REQUEST_DATE_CREATED + EVERYTHING_REQUEST_DATE_MODIFIED
  + EVERYTHING_REQUEST_DATE_ACCESSED + EVERYTHING_REQUEST_ATTRIBUTES
  + EVERYTHING_REQUEST_RUN_COUNT + EVERYTHING_REQUEST_HIGHLIGHTED_FILE_NAME
  + EVERYTHING_REQUEST_HIGHLIGHTED_PATH

\* The search configuration held by the library.
LibConfig(d) ==
  [search |-> d.search, match_path |-> d.match_path, match_case |-> d.match_case,
   match_whole_word |-> d.match_whole_word, regex |-> d.regex, max |-> d.max,
   sort |-> d.sort, request_flags |-> d.request_flags]

\* The configuration a call of EverythingSDK.search_files asks for.
CallConfig(f) ==
  [search |-> f.query, match_path |-> f.params.match_path,
   match_case |-> f.params.match_case,
   match_whole_word |-> f.params.match_whole_word,
   regex |-> f.params.match_regex, max |-> f.max_results,
   sort |-> f.params.sort_by, request_flags |-> DefaultRequestFlags]

\* A binding that hands the toggles over in the wrong places and leaves the
\* sort order alone.
SetSearchParameters_swapped(d, query, max_results, match_path, match_case, match_whole_word, match_regex, sort_by) ==
  [d EXCEPT !.search = query, !.match_path = match_case,
            !.match_case = match_path, !.match_whole_word = match_whole_word,
            !.regex = match_regex, !.max = max_results,
            !.request_flags = DefaultRequestFlags]

\* search_files, the setters: Everything_SetSearchW ... Everything_SetSort and
\* Everything_SetRequestFlags, each storing its argument.
SetSearchParameters(d, query, max_results, match_path, match_case, match_whole_word, match_regex, sort_by) ==
  [d EXCEPT !.search = query, !.match_path = match_path,
            !.match_case = match_case, !.match_whole_word = match_whole_word,
            !.regex = match_regex, !.max = max_results, !.sort = sort_by,
            !.request_flags = DefaultRequestFlags]

\* The entry the index holds at a position: its full path and its name.
NativePath(i) == <<"C", ":", "\\", "f">> \o IntToStr(i)
NativeName(i) == <<"f">> \o IntToStr(i)

\* datetime.isoformat(): the text that denotes the datetime.
isoformat(dt) == [isoformat |-> dt]

\* WINDOWS_EPOCH: 1601-01-01 00:00:00, what a tick count of zero denotes.
WINDOWS_EPOCH == [year |-> 1601, month |-> 1, day |-> 1]

\* A timestamp of a result without the test for zero: zero is decoded too.
DecodeTime_unguarded(raw) ==
  IF raw = FtZero THEN Some(isoformat(WINDOWS_EPOCH))
  ELSE Some(isoformat(get_time(raw)))

\* `self._get_time(raw).isoformat() if raw else None`, for a raw value that
\* _get_time can decode.
DecodeTime(raw) ==
  IF FtTruthy(raw) THEN Some(isoformat(get_time(raw))) ELSE None

\* Whether decoding the raw value raises.
DecodeTimeRaises(raw) == FtTruthy(raw) /\ GetTimeRaises(raw)

\* The SearchResult built for index i (everything_sdk.SearchResult).  The row
\* keeps, beside the fields of the code, the index it was read at and the raw
\* values its timestamps were decoded from.
NativeResult(i, created, modified, accessed) ==
  [index |-> i, path |-> NativePath(i), filename |-> NativeName(i),
   extension |-> None, size |-> Some(i),
   created |-> DecodeTime(created), modified |-> DecodeTime(modified),
   accessed |-> DecodeTime(accessed),
   raw |-> [created |-> created, modified |-> modified, accessed |-> accessed]]

(***************************************************************************)
(* The external-process providers.                                         *)
(***************************************************************************)
\* A fallback that fills the size with a zero instead of leaving it out.
convert_path_to_result_zero_size(i, path, stat_ok) ==
  IF stat_ok
  THEN [index |-> i, path |-> PathStr(path), filename |-> PathName(path),
        extension |-> IF PathSuffix(path) # <<>>
                      THEN Some(Tail(PathSuffix(path))) ELSE None,
        size |-> Some(StatResult.st_size),
        created |-> Some([sec |-> StatResult.st_ctime, us |-> 0]),
        modified |-> Some([sec |-> StatResult.st_mtime, us |-> 0]),
        accessed |-> Some([sec |-> StatResult.st_atime, us |-> 0])]
  ELSE [index |-> i, path |-> path, filename |-> basename(path),
        extension |-> None, size |-> Some(0),
        created |-> None, modified |-> None, accessed |-> None]

\* SearchProvider._convert_path_to_result: the entry's metadata when stat
\* succeeds, the path and its base name alone when it raises OSError.  The
\* index is the position of the line the row was made from.
convert_path_to_result(i, path, stat_ok) ==
  IF stat_ok
  THEN [index |-> i, path |-> PathStr(path), filename |-> PathName(path),
        extension |-> IF PathSuffix(path) # <<>>
                      THEN Some(Tail(PathSuffix(path))) ELSE None,
        size |-> Some(StatResult.st_size),
        created |-> Some([sec |-> StatResult.st_ctime, us |-> 0]),
        modified |-> Some([sec |-> StatResult.st_mtime, us |-> 0]),
        accessed |-> Some([sec |-> StatResult.st_atime, us |-> 0])]
  ELSE [index |-> i, path |-> path, filename |-> basename(path),
        extension |-> None, size |-> None,
        created |-> None, modified |-> None, accessed |-> None]

\* stat of the root directory always succeeds; any other entry may be gone.
StatOutcomes(path) == IF PathStr(path) = <<"/">> THEN {TRUE} ELSE {TRUE, FALSE}

\* An argument vector with the test of match_case the other way round.
locate_command_case_inverted(provider, query, match_case, match_regex) ==
  <<Lit(provider.locate_cmd)>>
  \o (IF match_case THEN <<Lit("-i")>> ELSE <<>>)
  \o (IF match_regex
      THEN <<Lit(IF provider.locate_type = "mlocate" THEN "--regex" ELSE "-r")>>
      ELSE <<>>)
  \o <<Txt(query)>>

\* LinuxSearchProvider.search_files: the argument vector.
locate_command(provider, query, match_case, match_regex) ==
  <<Lit(provider.locate_cmd)>>
  \o (IF ~match_case THEN <<Lit("-i")>> ELSE <<>>)
  \o (IF match_regex
      THEN <<Lit(IF provider.locate_type = "mlocate" THEN "--regex" ELSE "-r")>>
      ELSE <<>>)
  \o <<Txt(query)>>

\* MacSearchProvider.search_files: the argument vector.
mdfind_command(query, match_path) ==
  <<Lit("mdfind")>>
  \o (IF match_path THEN <<Txt(query)>> ELSE <<Lit("-name"), Txt(query)>>)

\* Whether stderr tells of a missing database, as search_files tests it.
database_missing(stderr) ==
  InLower("no such file or directory", stderr) \/ InLower("database", stderr)

\* LinuxSearchProvider.search_files, returncode != 0, without the test for
\* the database.
locate_failure_generic(provider, stderr) ==
  Exception("RuntimeError",
            <<Lit(provider.locate_cmd), Lit(" failed: "), Words(stderr)>>)

\* LinuxSearchProvider.search_files, returncode != 0: the error raised.
locate_failure(provider, stderr) ==
  IF database_missing(stderr)
  THEN Exception("RuntimeError",
                 <<Lit("The "), Lit(provider.locate_type),
                   Lit(" database needs to be created. "),
                   Lit("Please run: "), Lit("sudo updatedb")>>)
  ELSE Exception("RuntimeError",
                 <<Lit(provider.locate_cmd), Lit(" failed: "), Words(stderr)>>)

\* MacSearchProvider.search_files, returncode != 0: the error raised.
mdfind_failure(stderr) ==
  Exception("RuntimeError", <<Lit("mdfind"), Lit(" failed: "), Words(stderr)>>)

\* The lines of stdout without the slice.
take_paths_all(stdout, max_results) == splitlines(stdout)

\* `paths = result.stdout.splitlines()[:max_results]`, max_results >= 1.
take_paths(stdout, max_results) ==
  LET lines == splitlines(stdout) IN SubSeq(lines, 1, Min(Len(lines), max_results))

\* A comprehension that keeps only the rows whose stat succeeded.
convert_paths_existing_only(paths, stat_ok) ==
  SelectSeq([i \in 1..Len(paths) |->
               convert_path_to_result(i - 1, paths[i], stat_ok[i])],
            LAMBDA r : ~IsNone(r.size))

\* `[self._convert_path_to_result(path) for path in paths]`.
convert_paths(paths, stat_ok) ==
  [i \in 1..Len(paths) |-> convert_path_to_result(i - 1, paths[i], stat_ok[i])]

(***************************************************************************)
(* serve: the provider is chosen and constructed as the server starts.     *)
(***************************************************************************)
Provider(kind, cmd, type) == [kind |-> kind, locate_cmd |-> cmd, locate_type |-> type]

\* A get_provider whose constructors check nothing: the provider for linux
\* is made whether or not a tool is found, the one for windows whether or not
\* the library loads.
get_provider_unchecked(h) ==
  CASE h.system = "darwin" -> Some(Provider("mac", "", ""))
    [] h.system = "linux" ->
         IF "plocate" \in h.installed
         THEN Some(Provider("linux", "plocate", "plocate"))
         ELSE Some(Provider("linux", "locate", "mlocate"))
    [] h.system = "windows" -> Some(Provider("windows", "", ""))
    [] OTHER -> None

\* SearchProvider.get_provider with the constructors it calls: the provider
\* for the host, or None when the constructor raises or no provider exists.
get_provider(h) ==
  CASE h.system = "darwin" -> Some(Provider("mac", "", ""))
    [] h.system = "linux" ->
         IF "plocate" \in h.installed
         THEN Some(Provider("linux", "plocate", "plocate"))
         ELSE IF "locate" \in h.installed
              THEN Some(Provider("linux", "locate", "mlocate"))
              ELSE None
    [] h.system = "windows" ->
         IF "Everything64.dll" \in h.installed
         THEN Some(Provider("windows", "", ""))
         ELSE None
    [] OTHER -> None

(***************************************************************************)
(* call_tool.                                                              *)
(***************************************************************************)
\* A call_tool that awaits the query, giving the loop away with the search
\* parameters set.
AwaitPoints_query == {"sdk_query"}

\* The places of call_tool at which the coroutine gives the event loop to
\* another task: it awaits nothing, so there are none.
AwaitPoints == {}

\* The locals of a call before it starts.  `arguments` is filled where the
\* parsing of the arguments is looked at on its own; `asked` is query.query
\* of call_tool, `query` what search_files has made of it; `attempts` counts the runs of the
\* external tool and the queries of the library; `skipped` holds the indices
\* the loop over the results has logged and left out.
EmptyFrame ==
  [arguments |-> None, platform_params |-> None, asked |-> <<>>,
   query |-> <<>>, max_results |-> 0, params |-> WindowsSpecificParams,
   proc |-> None, queried |-> None, attempts |-> 0, num_results |-> 0, i |-> 0,
   skipped |-> {}, results |-> <<>>, returned |-> FALSE, raised |-> None]

\* A max_results field declared without its upper limit.
InvalidFields_no_upper_bound(arguments) ==
  LET base == arguments.base
      wp == arguments.windows_params
  IN (IF IsNone(base) \/ IsNone(Get(base).query) THEN {"query"} ELSE {})
     \cup (IF ~IsNone(base) /\ ~IsNone(Get(base).max_results)
              /\ (\/ ~IsNum(Get(Get(base).max_results))
                  \/ Get(Get(base).max_results).num < MAX_RESULTS_GE)
           THEN {"max_results"} ELSE {})
     \cup (IF ~IsNone(wp) /\ Get(wp).sort_by \notin WindowsSortOption
           THEN {"windows_params.sort_by"} ELSE {})

\* A model that forbids the keys it has no field for.
InvalidFields_forbid_extra(arguments) ==
  LET base == arguments.base
      wp == arguments.windows_params
  IN (IF IsNone(base) \/ IsNone(Get(base).query) THEN {"query"} ELSE {})
     \cup (IF ~IsNone(base) /\ ~IsNone(Get(base).max_results)
              /\ (\/ ~IsNum(Get(Get(base).max_results))
                  \/ Get(Get(base).max_results).num < MAX_RESULTS_GE
                  \/ Get(Get(base).max_results).num > MAX_RESULTS_LE)
           THEN {"max_results"} ELSE {})
     \cup (IF ~IsNone(wp) /\ Get(wp).sort_by \notin WindowsSortOption
           THEN {"windows_params.sort_by"} ELSE {})
     \cup (IF ~IsNone(base) /\ ~IsNone(Get(base).unknown)
           THEN {"unknown"} ELSE {})

\* The fields of the arguments that UnifiedSearchQuery(**query_params)
\* rejects: a missing query, a max_results that is no number or out of range,
\* a sort_by that is no WindowsSortOption.  A key without a field is left out.  (`{**base_params, 'windows_params': windows_params}`:
\* an absent 'base' is the empty dictionary.)
InvalidFields(arguments) ==
  LET base == arguments.base
      wp == arguments.windows_params
  IN (IF IsNone(base) \/ IsNone(Get(base).query) THEN {"query"} ELSE {})
     \cup (IF ~IsNone(base) /\ ~IsNone(Get(base).max_results)
              /\ (\/ ~IsNum(Get(Get(base).max_results))
                  \/ Get(Get(base).max_results).num < MAX_RESULTS_GE
                  \/ Get(Get(base).max_results).num > MAX_RESULTS_LE)
           THEN {"max_results"} ELSE {})
     \cup (IF ~IsNone(wp) /\ Get(wp).sort_by \notin WindowsSortOption
           THEN {"windows_params.sort_by"} ELSE {})

\* The validated query, for arguments with no invalid field.
UnifiedSearchQuery(arguments) ==
  LET base == Get(arguments.base) IN
  [query |-> Get(base.query),
   max_results |-> IF IsNone(base.max_results) THEN MAX_RESULTS_DEFAULT
                   ELSE Get(base.max_results).num,
   mac_params |-> base.mac_params,
   linux_params |-> base.linux_params,
   windows_params |-> IF IsNone(arguments.windows_params)
                      THEN WindowsSpecificParams
                      ELSE Get(arguments.windows_params)]

\* A normalization that makes the two replacements in the other order.
normalize_query_slashes_first(query) ==
  Replace(Replace(query, <<"/">>, <<"\\">>), <<"\\", "\\">>, <<"\\">>)

\* A normalization that turns the separators the other way.
normalize_query_to_slash(query) == Replace(query, <<"\\">>, <<"/">>)

\* WindowsSearchProvider.search_files: the query it hands to the binding.
normalize_query(query) ==
  Replace(Replace(query, <<"\\", "\\">>, <<"\\">>), <<"/">>, <<"\\">>)

\* A call_tool that takes whichever bag the query holds.
PlatformBag_any(platform, query) ==
  IF ~IsNone(query.mac_params) THEN query.mac_params ELSE query.linux_params

\* The bag call_tool spreads into the provider's keyword arguments on an
\* external platform: `query.mac_params or {}`, `query.linux_params or {}`.
PlatformBag(platform, query) ==
  IF platform = "darwin" THEN query.mac_params
  ELSE IF platform = "linux" THEN query.linux_params
  ELSE None

\* What call_tool returns.
TextResponse(rows) == [kind |-> "text", rows |-> rows, text |-> <<>>]
FailedResponse(e) ==
  [kind |-> "failed", rows |-> <<>>, text |-> <<Lit("Search failed: ")>> \o e.message]
RaisedResponse(e) == [kind |-> "raised", rows |-> <<>>, text |-> e.message]

\* One block of the text: the fields as the f-string prints them.  The size
\* is formatted with `:,`, which None does not support.
FormatRow(r) ==
  [Path |-> r.path, Filename |-> r.filename, Extension |-> r.extension,
   Size |-> Get(r.size), Created |-> r.created, Modified |-> r.modified,
   Accessed |-> r.accessed]
FormatRaises(results) == \E i \in 1..Len(results) : IsNone(results[i].size)

\* call_tool, from the results to the response: the text, or "Search failed"
\* when formatting raises TypeError.
format_results(results) ==
  IF FormatRaises(results)
  THEN FailedResponse(Exception("TypeError",
         <<Lit("unsupported format string passed to NoneType.__format__")>>))
  ELSE TextResponse([i \in 1..Len(results) |-> FormatRow(results[i])])

(***************************************************************************)
(* The initial state.                                                      *)
(***************************************************************************)
TtIdle == [raw |-> FtZero, decoded |-> None, encoded |-> None]

Init ==
  /\ host \in Hosts
  /\ server = "starting"
  /\ current_platform = ""
  /\ search_provider = None
  /\ dll = DllDefault
  /\ running = 0
  /\ pc = [t \in Tasks |-> "idle"]
  /\ frame = [t \in Tasks |-> EmptyFrame]
  /\ response = [t \in Tasks |-> None]
  /\ tt = TtIdle

(***************************************************************************)
(* The event loop: a task runs from one await to the next, and call_tool   *)
(* awaits nothing, so a call runs from its start to its return before any  *)
(* other task is resumed.                                                  *)
(***************************************************************************)
MayRun(t) == running = t \/ running = 0

Goto(t, p) ==
  /\ pc' = [pc EXCEPT ![t] = p]
  /\ running' = IF p \in AwaitPoints \cup {"idle"} THEN 0 ELSE t

(***************************************************************************)
(* The actions.                                                            *)
(***************************************************************************)
\* serve, up to the construction of the provider: an exception ends the
\* process before the server runs.
Serve ==
  /\ server = "starting"
  /\ current_platform' = host.system
  /\ search_provider' = get_provider(host)
  /\ server' = IF IsNone(get_provider(host)) THEN "failed" ELSE "serving"
  /\ UNCHANGED <<host, dll, running, pc, frame, response, tt>>

\* A client sends a tool call; the transport starts a task for it.
Arrive(t) ==
  /\ server = "serving"
  /\ pc[t] = "idle"
  /\ pc' = [pc EXCEPT ![t] = "pending"]
  /\ UNCHANGED <<host, server, current_platform, search_provider, dll, running,
                 frame, response, tt>>

\* call_tool, from the arguments to the call of search_files: where the call
\* goes next and the locals it has then.
dispatch(platform, arguments) ==
  LET start == EmptyFrame IN
  IF InvalidFields(arguments) # {}
  THEN [pc |-> "respond",
        frame |-> [start EXCEPT !.raised =
          Some(Exception("ValidationError",
                 <<Lit("validation error for UnifiedSearchQuery")>>))]]
  ELSE LET query == UnifiedSearchQuery(arguments) IN
       IF platform = "windows"
       THEN [pc |-> "sdk_set",
             frame |-> [start EXCEPT !.asked = query.query,
                                     !.query = normalize_query(query.query),
                                     !.max_results = query.max_results,
                                     !.params = query.windows_params]]
       ELSE IF ~IsNone(PlatformBag(platform, query))
       THEN [pc |-> "respond",
             frame |-> [start EXCEPT
               !.asked = query.query,
               !.platform_params = PlatformBag(platform, query),
               !.raised = Some(Exception("TypeError",
                  <<Lit("search_files() got an unexpected keyword argument")>>))]]
       ELSE [pc |-> "external_run",
             frame |-> [start EXCEPT !.asked = query.query,
                                     !.query = query.query,
                                     !.max_results = query.max_results]]

\* call_tool, from its start to the call of search_provider.search_files.
CallTool(t) ==
  /\ pc[t] = "pending"
  /\ running = 0
  /\ \E name \in {"search", "other"}, arguments \in ArgumentChoices :
       IF name # "search"
       THEN /\ response' = [response EXCEPT ![t] =
                 Some(RaisedResponse(Exception("ValueError",
                        <<Lit("Unknown tool: "), Lit(name)>>)))]
            /\ frame' = frame
            /\ Goto(t, "done")
       ELSE /\ frame' = [frame EXCEPT ![t] = dispatch(current_platform, arguments).frame]
            /\ response' = response
            /\ Goto(t, dispatch(current_platform, arguments).pc)
  /\ UNCHANGED <<host, server, current_platform, search_provider, dll, tt>>

\* A search_files that asks the library again when the query fails.
on_query_failure_retry == "sdk_query"

\* Where search_files is after a failed query: it raises, and call_tool's
\* handler is next.
on_query_failure == "respond"

\* A loop over the results whose first failure loses the rows read so far.
collect_aborting(results, raises, row) ==
  IF raises THEN <<>> ELSE Append(results, row)

\* The body of the loop over the results: the row is appended, or what was
\* raised is logged and the loop goes on.
collect(results, raises, row) ==
  IF raises THEN results ELSE Append(results, row)

\* EverythingSDK.search_files: the search parameters are set.
SdkSet(t) ==
  /\ pc[t] = "sdk_set"
  /\ MayRun(t)
  /\ dll' = SetSearchParameters(dll, frame[t].query, frame[t].max_results,
              frame[t].params.match_path, frame[t].params.match_case,
              frame[t].params.match_whole_word, frame[t].params.match_regex,
              frame[t].params.sort_by)
  /\ Goto(t, "sdk_query")
  /\ UNCHANGED <<host, server, current_platform, search_provider, frame,
                 response, tt>>

\* EverythingSDK.search_files: Everything_QueryW(True).  The library answers
\* for the configuration it holds, with any number of results, or fails with
\* any last error.
SdkQuery(t) ==
  /\ pc[t] = "sdk_query"
  /\ MayRun(t)
  /\ \/ \E n \in 0..MaxLines :
          /\ dll' = [dll EXCEPT !.num_results = n,
                                !.replied = Some(LibConfig(dll)),
                                !.last_error = EVERYTHING_OK]
          /\ frame' = [frame EXCEPT ![t].queried = Some(TRUE),
                                    ![t].attempts = @ + 1,
                                    ![t].num_results = Min(n, frame[t].max_results),
                                    ![t].i = 0, ![t].results = <<>>]
          /\ Goto(t, "sdk_read")
     \/ \E error_code \in 0..MaxErrorCode :
          /\ dll' = [dll EXCEPT !.num_results = 0, !.replied = None,
                                !.last_error = error_code]
          /\ frame' = [frame EXCEPT ![t].queried = Some(FALSE),
                                    ![t].attempts = @ + 1,
                                    ![t].raised = Some(check_error(error_code))]
          /\ Goto(t, on_query_failure)
  /\ UNCHANGED <<host, server, current_platform, search_provider, response, tt>>

\* EverythingSDK.search_files: one turn of the loop over the result indices.
\* The library gives a name or a null pointer, and any raw timestamps; an
\* index the library holds no result for gives a null pointer.  A row whose
\* construction raises is skipped.
SdkRead(t) ==
  /\ pc[t] = "sdk_read"
  /\ MayRun(t)
  /\ frame[t].i < frame[t].num_results
  /\ \E name_ok \in BOOLEAN, created \in RawTimes, modified \in RawTimes,
        accessed \in RawTimes :
       LET i == frame[t].i
           raises == \/ ~(i < dll.num_results)
                     \/ ~name_ok
                     \/ DecodeTimeRaises(created)
                     \/ DecodeTimeRaises(modified)
                     \/ DecodeTimeRaises(accessed)
       IN frame' = [frame EXCEPT
                      ![t].i = i + 1,
                      ![t].skipped = IF raises THEN @ \cup {i} ELSE @,
                      ![t].results =
                         collect(@, raises, NativeResult(i, created, modified, accessed))]
  /\ Goto(t, "sdk_read")
  /\ UNCHANGED <<host, server, current_platform, search_provider, dll,
                 response, tt>>

\* EverythingSDK.search_files: Everything_Reset after the loop, and return.
SdkReset(t) ==
  /\ pc[t] = "sdk_read"
  /\ MayRun(t)
  /\ frame[t].i >= frame[t].num_results
  /\ dll' = DllDefault
  /\ frame' = [frame EXCEPT ![t].returned = TRUE]
  /\ Goto(t, "respond")
  /\ UNCHANGED <<host, server, current_platform, search_provider, response, tt>>

\* The process result search_files keeps.
Process(cmd, returncode, lines, stderr, stat_ok) ==
  [cmd |-> cmd, returncode |-> returncode, lines |-> lines,
   stdout |-> PrintLines(lines), stderr |-> stderr, stat_ok |-> stat_ok]

\* MacSearchProvider.search_files and LinuxSearchProvider.search_files (from
\* call_tool the toggles are the defaults of the parameters): the tool cannot
\* be started, or exits non-zero, or prints its lines and exits with 0.
ExternalRun(t) ==
  /\ pc[t] = "external_run"
  /\ MayRun(t)
  /\ LET provider == Get(search_provider)
         linux == provider.kind = "linux"
         cmd == IF linux
                THEN locate_command(provider, frame[t].query,
                       frame[t].params.match_case, frame[t].params.match_regex)
                ELSE mdfind_command(frame[t].query, frame[t].params.match_path)
     IN \/ frame' = [frame EXCEPT ![t].attempts = @ + 1,
                                 ![t].raised =
               IF linux
               THEN Some(Exception("RuntimeError",
                      <<Lit("The "), Lit(provider.locate_cmd),
                        Lit(" command disappeared. Please reinstall")>>))
               ELSE Some(Exception("FileNotFoundError",
                      <<Lit("No such file or directory: "), Lit("mdfind")>>))]
        \/ \E stderr \in StderrPool :
             frame' = [frame EXCEPT
               ![t].attempts = @ + 1,
               ![t].proc = Some(Process(cmd, 1, <<>>, stderr, <<>>)),
               ![t].raised = IF linux THEN Some(locate_failure(provider, stderr))
                             ELSE Some(mdfind_failure(stderr))]
        \/ \E lines \in SeqsUpTo(LinePool, MaxLines) :
             LET stdout == PrintLines(lines)
                 paths == take_paths(stdout, frame[t].max_results)
             IN \E stat_ok \in {f \in [1..Len(paths) -> BOOLEAN] :
                                  \A i \in 1..Len(paths) : f[i] \in StatOutcomes(paths[i])} :
                  frame' = [frame EXCEPT
                    ![t].attempts = @ + 1,
                    ![t].proc = Some(Process(cmd, 0, lines, <<>>, stat_ok)),
                    ![t].results = convert_paths(paths, stat_ok),
                    ![t].returned = TRUE]
  /\ Goto(t, "respond")
  /\ UNCHANGED <<host, server, current_platform, search_provider, dll,
                 response, tt>>

\* call_tool, after search_files: the text of the results, or "Search failed"
\* for whatever was raised inside the try.
Respond(t) ==
  /\ pc[t] = "respond"
  /\ MayRun(t)
  /\ response' = [response EXCEPT ![t] =
       IF ~IsNone(frame[t].raised) THEN Some(FailedResponse(Get(frame[t].raised)))
       ELSE Some(format_results(frame[t].results))]
  /\ Goto(t, "done")
  /\ UNCHANGED <<host, server, current_platform, search_provider, dll, frame, tt>>

\* The call has returned: the transport sends the response and the task ends.
Deliver(t) ==
  /\ pc[t] = "done"
  /\ MayRun(t)
  /\ frame' = [frame EXCEPT ![t] = EmptyFrame]
  /\ response' = [response EXCEPT ![t] = None]
  /\ Goto(t, "idle")
  /\ UNCHANGED <<host, server, current_platform, search_provider, dll, tt>>

Next ==
  \/ Serve
  \/ \E t \in Tasks : Arrive(t)
  \/ \E t \in Tasks : CallTool(t)
  \/ \E t \in Tasks : SdkSet(t)
  \/ \E t \in Tasks : SdkQuery(t)
  \/ \E t \in Tasks : SdkRead(t)
  \/ \E t \in Tasks : SdkReset(t)
  \/ \E t \in Tasks : ExternalRun(t)
  \/ \E t \in Tasks : Respond(t)
  \/ \E t \in Tasks : Deliver(t)

Spec == Init /\ [][Next]_vars

(***************************************************************************)
(* _get_time on its own: a timestamp is decoded and encoded again.         *)
(***************************************************************************)
\* Present-day timestamps: 1.7e9 seconds after 1970 and on, at every tick of
\* the first MaxTick of a second.
TimeInputs ==
  { FT(EPOCH_DIFF_HI + 170, m, l) :
      m \in {EPOCH_DIFF_LO, WINDOWS_TICKS - 1}, l \in 0..MaxTick }

TimeInit ==
  /\ host = [system |-> "windows", installed |-> {"Everything64.dll"}]
  /\ server = "starting"
  /\ current_platform = ""
  /\ search_provider = None
  /\ dll = DllDefault
  /\ running = 0
  /\ pc = [t \in Tasks |-> "idle"]
  /\ frame = [t \in Tasks |-> EmptyFrame]
  /\ response = [t \in Tasks |-> None]
  /\ \E raw \in TimeInputs : tt = [TtIdle EXCEPT !.raw = raw]

TimeDecode ==
  /\ IsNone(tt.decoded)
  /\ tt' = [tt EXCEPT !.decoded = Some(get_time(tt.raw))]
  /\ UNCHANGED <<host, server, current_platform, search_provider, dll, running,
                 pc, frame, response>>

TimeEncode ==
  /\ ~IsNone(tt.decoded)
  /\ IsNone(tt.encoded)
  /\ tt' = [tt EXCEPT !.encoded = Some(FiletimeOf(Get(tt.decoded)))]
  /\ UNCHANGED <<host, server, current_platform, search_provider, dll, running,
                 pc, frame, response>>

TimeNext == TimeDecode \/ TimeEncode

SpecTime == TimeInit /\ [][TimeNext]_vars

(***************************************************************************)
(* The normalization of the query on its own: every text of backslashes,   *)
(* slashes and a letter goes through WindowsSearchProvider.search_files'   *)
(* two replacements.                                                       *)
(***************************************************************************)
QueryAlphabet == {"\\", "/", "a"}
QueryTexts == SeqsUpTo(QueryAlphabet, MaxQueryLen)

\* A server on Windows whose first call has come to search_files.
NormalizeInit ==
  /\ host = [system |-> "windows", installed |-> {"Everything64.dll"}]
  /\ server = "serving"
  /\ current_platform = host.system
  /\ search_provider = get_provider(host)
  /\ dll = DllDefault
  /\ running = 1
  /\ pc = [t \in Tasks |-> IF t = 1 THEN "normalize" ELSE "idle"]
  /\ \E q \in QueryTexts :
       frame = [t \in Tasks |->
                  IF t = 1
                  THEN [EmptyFrame EXCEPT !.asked = q, !.query = q,
                                          !.max_results = MAX_RESULTS_DEFAULT]
                  ELSE EmptyFrame]
  /\ response = [t \in Tasks |-> None]
  /\ tt = TtIdle

\* WindowsSearchProvider.search_files, up to the call of the binding.
Normalize(t) ==
  /\ pc[t] = "normalize"
  /\ frame' = [frame EXCEPT ![t].query = normalize_query(frame[t].query)]
  /\ pc' = [pc EXCEPT ![t] = "normalized"]
  /\ UNCHANGED <<host, server, current_platform, search_provider, dll, running,
                 response, tt>>

NormalizeNext == \E t \in Tasks : Normalize(t)

SpecNormalize == NormalizeInit /\ [][NormalizeNext]_vars

(***************************************************************************)
(* call_tool's way from the arguments to the call of search_files on its   *)
(* own: the arguments are kept beside what is made of them.                *)
(***************************************************************************)
\* A serving process with one call that has its arguments.
DispatchInit ==
  /\ host \in {h \in Hosts : ~IsNone(get_provider(h))}
  /\ server = "serving"
  /\ current_platform = host.system
  /\ search_provider = get_provider(host)
  /\ dll = DllDefault
  /\ running = 0
  /\ pc = [t \in Tasks |-> IF t = 1 THEN "pending" ELSE "idle"]
  /\ \E arguments \in ArgumentChoices :
       frame = [t \in Tasks |->
                  IF t = 1 THEN [EmptyFrame EXCEPT !.arguments = Some(arguments)]
                  ELSE EmptyFrame]
  /\ response = [t \in Tasks |-> None]
  /\ tt = TtIdle

\* call_tool("search", arguments), up to the call of search_files.
ParseArguments(t) ==
  /\ pc[t] = "pending"
  /\ running = 0
  /\ ~IsNone(frame[t].arguments)
  /\ LET d == dispatch(current_platform, Get(frame[t].arguments)) IN
       /\ frame' = [frame EXCEPT
                      ![t] = [d.frame EXCEPT !.arguments = frame[t].arguments]]
       /\ Goto(t, d.pc)
  /\ UNCHANGED <<host, server, current_platform, search_provider, dll,
                 response, tt>>

DispatchNext == \E t \in Tasks : ParseArguments(t)

SpecDispatch == DispatchInit /\ [][DispatchNext]_vars

(***************************************************************************)
(* LinuxSearchProvider.search_files on its own: it is called with every     *)
(* combination of match_case and match_regex, which call_tool never passes. *)
(***************************************************************************)
\* Query strings for locate: those of the calls and one that reads as a flag.
LocateQueries == Queries \cup { <<"-", "i">> }

\* A serving process on linux whose first call stands at search_files.
LocateInit ==
  /\ host \in {h \in Hosts : h.system = "linux" /\ ~IsNone(get_provider(h))}
  /\ server = "serving"
  /\ current_platform = host.system
  /\ search_provider = get_provider(host)
  /\ dll = DllDefault
  /\ running = 1
  /\ pc = [t \in Tasks |-> IF t = 1 THEN "external_run" ELSE "idle"]
  /\ \E query \in LocateQueries, max_results \in 1..SmallMax,
        match_case \in BOOLEAN, match_regex \in BOOLEAN :
       frame = [t \in Tasks |->
         IF t = 1
         THEN [EmptyFrame EXCEPT !.asked = query, !.query = query,
                                 !.max_results = max_results,
                                 !.params.match_case = match_case,
                                 !.params.match_regex = match_regex]
         ELSE EmptyFrame]
  /\ response = [t \in Tasks |-> None]
  /\ tt = TtIdle

LocateNext == \E t \in Tasks : ExternalRun(t)

SpecLocate == LocateInit /\ [][LocateNext]_vars

(***************************************************************************)
(* The properties.                                                         *)
(***************************************************************************)
\* search_files of task t has returned its list to call_tool.
Returned(t) == pc[t] \in {"respond", "done"} /\ frame[t].returned

\* search_files of task t ran an external tool that exited with 0.
ExitedZero(t) ==
  /\ Returned(t)
  /\ ~IsNone(frame[t].proc)
  /\ Get(frame[t].proc).returncode = 0

\* search_files of task t ran an external tool that exited non-zero.
ExitedNonZero(t) ==
  /\ pc[t] \in {"respond", "done"}
  /\ ~IsNone(frame[t].proc)
  /\ Get(frame[t].proc).returncode # 0

\* A line that is the absolute path of an entry, as an index prints it: below
\* the root, no empty component, no "." or "..", no slash at its end.
IsEntryPath(line) ==
  /\ Len(line) >= 2
  /\ Head(line) = "/"
  /\ \A c \in 1..Len(Split(Tail(line), "/")) :
       Split(Tail(line), "/")[c] \notin {<<>>, <<".">>, <<".", ".">>}

\* C1: whatever the provider, and for every max_results from 1 to 1000, the
\* list search_files returns holds at most max_results rows.
C1_AtMostMaxResults ==
  \A t \in Tasks :
    (Returned(t) /\ frame[t].max_results \in MAX_RESULTS_GE..MAX_RESULTS_LE)
      => Len(frame[t].results) <= frame[t].max_results

\* A search returned max_results rows of a tool that printed more lines.
C1_Witness ==
  \E t \in Tasks :
    /\ ExitedZero(t)
    /\ Len(Get(frame[t].proc).lines) > frame[t].max_results
    /\ Len(frame[t].results) = frame[t].max_results

C3_FallbackRow ==
  \A t \in Tasks :
    ExitedZero(t) =>
      \A i \in 1..Len(frame[t].results) :
        LET line == splitlines(Get(frame[t].proc).stdout)[i]
            r == frame[t].results[i]
        IN (IsEntryPath(line) /\ ~Get(frame[t].proc).stat_ok[i]) =>
             /\ r.path # <<>>
             /\ r.filename # <<>>
             /\ IsNone(r.size)
             /\ IsNone(r.created)
             /\ IsNone(r.modified)
             /\ IsNone(r.accessed)

\* The stat of a printed entry path failed and its row was returned.
C3_Witness ==
  \E t \in Tasks :
    /\ ExitedZero(t)
    /\ Len(frame[t].results) >= 1
    /\ Get(frame[t].proc).lines[1] = PathBT
    /\ ~Get(frame[t].proc).stat_ok[1]
    /\ frame[t].results[1].filename = <<"b", ".", "t">>

\* C4: a stat that failed for a row is never made a failure of the search:
\* call_tool answers with the text of every row.
C4_StatFailureNotEscalated ==
  \A t \in Tasks :
    (/\ pc[t] = "done"
     /\ ExitedZero(t)
     /\ \E i \in 1..Len(frame[t].results) : ~Get(frame[t].proc).stat_ok[i])
      => /\ ~IsNone(response[t])
         /\ Get(response[t]).kind = "text"
         /\ Len(Get(response[t]).rows) = Len(frame[t].results)

\* The message of an error names the tool and gives its stderr after it.
IsGenericFailure(e, tool, stderr) ==
  /\ e.type = "RuntimeError"
  /\ e.message = <<Lit(tool), Lit(" failed: "), Words(stderr)>>

\* The message of an error names the command that builds the database.
NamesUpdatedb(e) ==
  /\ e.type = "RuntimeError"
  /\ \E k \in 1..Len(e.message) : e.message[k] = Lit("sudo updatedb")

\* The name of the tool the provider of this process runs.
ToolName ==
  IF Get(search_provider).kind = "linux" THEN Get(search_provider).locate_cmd
  ELSE "mdfind"

\* C5: when the tool of the locate provider exits non-zero, a stderr that
\* tells of a missing database gives the error naming `sudo updatedb` and any
\* other stderr gives the error with the tool's name and its stderr; the tool
\* of the mdfind provider gives the error with its name and its stderr for
\* every stderr.  One error is raised and no list is returned.
C5_NonZeroExit ==
  \A t \in Tasks :
    ExitedNonZero(t) =>
      LET stderr == Get(frame[t].proc).stderr IN
      /\ ~frame[t].returned
      /\ frame[t].results = <<>>
      /\ ~IsNone(frame[t].raised)
      /\ IF Get(search_provider).kind = "linux" /\ database_missing(stderr)
         THEN /\ NamesUpdatedb(Get(frame[t].raised))
              /\ ~IsGenericFailure(Get(frame[t].raised), ToolName, stderr)
         ELSE /\ IsGenericFailure(Get(frame[t].raised), ToolName, stderr)
              /\ ~NamesUpdatedb(Get(frame[t].raised))

\* locate exited non-zero telling of a missing database, and the error that
\* names `sudo updatedb` has become the response.
C5_Witness ==
  \E t \in Tasks :
    /\ pc[t] = "done"
    /\ ExitedNonZero(t)
    /\ Get(search_provider).kind = "linux"
    /\ database_missing(Get(frame[t].proc).stderr)
    /\ NamesUpdatedb(Get(frame[t].raised))
    /\ Get(response[t]).kind = "failed"

\* C5 as the specification words it: a stderr that tells of a missing
\* database gives the error naming `sudo updatedb`, whatever the tool.
C5_AsWorded ==
  \A t \in Tasks :
    ExitedNonZero(t) =>
      LET stderr == Get(frame[t].proc).stderr IN
      /\ ~frame[t].returned
      /\ frame[t].results = <<>>
      /\ ~IsNone(frame[t].raised)
      /\ IF database_missing(stderr)
         THEN /\ NamesUpdatedb(Get(frame[t].raised))
              /\ ~IsGenericFailure(Get(frame[t].raised), ToolName, stderr)
         ELSE /\ IsGenericFailure(Get(frame[t].raised), ToolName, stderr)
              /\ ~NamesUpdatedb(Get(frame[t].raised))

\* The six parameters of a configuration the caller chooses.
Chosen(c) ==
  [search |-> c.search, match_path |-> c.match_path, match_case |-> c.match_case,
   match_whole_word |-> c.match_whole_word, regex |-> c.regex, sort |-> c.sort]

\* C6: on the native platform the search string, the four toggles and the
\* sort order the library holds when the query runs, and answers for, are
\* those of the call; the rows come in ascending order of the library's index.
C6_ParametersThenQuery ==
  \A t \in Tasks :
    /\ pc[t] = "sdk_query" => Chosen(LibConfig(dll)) = Chosen(CallConfig(frame[t]))
    /\ pc[t] = "sdk_read" =>
         /\ ~IsNone(dll.replied)
         /\ Chosen(Get(dll.replied)) = Chosen(CallConfig(frame[t]))
    /\ (current_platform = "windows" /\ pc[t] \in {"sdk_read", "respond", "done"}) =>
         \A i, j \in 1..Len(frame[t].results) :
           i < j => frame[t].results[i].index < frame[t].results[j].index

\* A query with toggles that differ and a sort order of its own was answered
\* and two rows have been read back.
C6_Witness ==
  \E t \in Tasks :
    /\ pc[t] = "sdk_read"
    /\ frame[t].params.match_case # frame[t].params.match_path
    /\ frame[t].params.sort_by # EVERYTHING_SORT_NAME_ASCENDING
    /\ Len(frame[t].results) = 2

\* Task t is between the setting of its parameters and the end of its loop
\* over the results.
InSearch(t) == pc[t] \in {"sdk_query", "sdk_read"}

\* C7: native searches are serialized: while one call is between setting its
\* parameters and reading its last result, no other call is, and the library
\* holds the parameters of that call.
C7_Serialized ==
  \A t \in Tasks :
    InSearch(t) =>
      /\ LibConfig(dll) = CallConfig(frame[t])
      /\ \A u \in Tasks \ {t} : ~InSearch(u)

\* One call is reading its results back while another request, for another
\* query, has arrived and waits.
C7_Witness ==
  \E t \in Tasks, u \in Tasks :
    /\ t # u
    /\ pc[t] = "sdk_read"
    /\ frame[t].i >= 1
    /\ pc[u] = "pending"

\* The query of task t has failed.
QueryFailed(t) ==
  pc[t] \in {"respond", "done"} /\ frame[t].queried = Some(FALSE)

\* C8: when the query fails with a last error other than EVERYTHING_OK, an
\* EverythingError with that code and a message is raised; when the last
\* error is EVERYTHING_OK a RuntimeError is raised.  No list is returned.
C8_QueryFailure ==
  \A t \in Tasks :
    QueryFailed(t) =>
      /\ ~frame[t].returned
      /\ frame[t].results = <<>>
      /\ ~IsNone(frame[t].raised)
      /\ IF dll.last_error # EVERYTHING_OK
         THEN /\ Get(frame[t].raised).type = "EverythingError"
              /\ Get(frame[t].raised).error_code = dll.last_error
              /\ Get(frame[t].raised).message # <<>>
         ELSE Get(frame[t].raised).type = "RuntimeError"

\* A query failed with EVERYTHING_ERROR_IPC and the error has become the
\* response.
C8_Witness ==
  \E t \in Tasks :
    /\ pc[t] = "done"
    /\ QueryFailed(t)
    /\ dll.last_error = EVERYTHING_ERROR_IPC
    /\ Get(frame[t].raised).type = "EverythingError"
    /\ Get(response[t]).kind = "failed"

\* C8 as the specification words it: every failed query raises an
\* EverythingError with the library's code and a message.
C8_AsWorded ==
  \A t \in Tasks :
    QueryFailed(t) =>
      /\ ~frame[t].returned
      /\ frame[t].results = <<>>
      /\ ~IsNone(frame[t].raised)
      /\ Get(frame[t].raised).type = "EverythingError"

\* The native rows of task t.
NativeRows(t) ==
  IF current_platform = "windows" /\ pc[t] \in {"sdk_read", "respond", "done"}
  THEN frame[t].results ELSE <<>>

\* C9: in a native row a timestamp is absent exactly when its raw value is
\* zero: zero is never shown as a date, a value other than zero is a date.
C9_ZeroIsAbsent ==
  \A t \in Tasks :
    \A i \in 1..Len(NativeRows(t)) :
      LET r == NativeRows(t)[i] IN
      /\ IsNone(r.created) <=> r.raw.created = FtZero
      /\ IsNone(r.modified) <=> r.raw.modified = FtZero
      /\ IsNone(r.accessed) <=> r.raw.accessed = FtZero

\* A row was returned with a creation time of zero and a modification time
\* other than zero.
C9_Witness ==
  \E t \in Tasks :
    /\ Returned(t)
    /\ Len(NativeRows(t)) >= 1
    /\ NativeRows(t)[1].raw.created = FtZero
    /\ IsNone(NativeRows(t)[1].created)
    /\ NativeRows(t)[1].raw.modified = FtPresent
    /\ ~IsNone(NativeRows(t)[1].modified)

\* The distance in ticks between a timestamp and what encoding its decoded
\* datetime gives.
RoundTripError == Abs(FtDiff(Get(tt.encoded), tt.raw))

\* C10: for a timestamp t of 2004 to 2037, encoding what _get_time decodes
\* from t gives t back to within 14 ticks: the float holds multiples of 16
\* ticks, the datetime whole microseconds.
C10_RoundTrip ==
  (~IsNone(tt.encoded) /\ ModernFiletime(tt.raw)) => RoundTripError <= 14

\* A timestamp has made the round trip and come back 14 ticks off.
C10_Witness ==
  /\ ~IsNone(tt.encoded)
  /\ ModernFiletime(tt.raw)
  /\ RoundTripError = 14

\* C10 as the specification words it: the round trip gives t back to within
\* one tick.
C10_AsWorded ==
  (~IsNone(tt.encoded) /\ ModernFiletime(tt.raw)) => RoundTripError <= 1

\* A query text without a forward slash and without two backslashes in a row.
IsNormalized(q) ==
  /\ \A i \in 1..Len(q) : q[i] # "/"
  /\ \A i \in 1..(Len(q) - 1) : ~(q[i] = "\\" /\ q[i + 1] = "\\")

\* C11: a query without a double backslash and without a forward slash is
\* handed to the binding as it is.
C11_NormalizedUnchanged ==
  \A t \in Tasks :
    (pc[t] = "normalized" /\ IsNormalized(frame[t].asked))
      => frame[t].query = frame[t].asked

\* A query with single backslashes has gone through the normalization.
C11_Witness ==
  \E t \in Tasks :
    /\ pc[t] = "normalized"
    /\ frame[t].asked = <<"a", "\\", "a", "\\">>
    /\ frame[t].query = frame[t].asked

\* call_tool of task t has gone through its arguments, which are a.
Parsed(t, a) == pc[t] # "pending" /\ frame[t].arguments = Some(a)

\* The call of task t goes on to search_files.
Dispatched(t) == pc[t] \in {"sdk_set", "external_run"}

\* The call of task t has failed validation and search_files is not called.
Rejected(t) ==
  /\ pc[t] = "respond"
  /\ ~IsNone(frame[t].raised)
  /\ Get(frame[t].raised).type = "ValidationError"
  /\ frame[t].attempts = 0

\* The arguments hold a max_results that is a number.
HasNumber(a) ==
  /\ ~IsNone(a.base)
  /\ ~IsNone(Get(a.base).max_results)
  /\ IsNum(Get(Get(a.base).max_results))

\* The number the arguments give for max_results.
AskedMax(a) == Get(Get(a.base).max_results).num

\* The arguments are valid but perhaps for max_results, and hold no bag of
\* an external platform.
OtherwiseValid(a) ==
  /\ InvalidFields(a) \subseteq {"max_results"}
  /\ IsNone(Get(a.base).linux_params)
  /\ IsNone(Get(a.base).mac_params)

\* C12: the construction of the query rejects a max_results below 1 and a
\* max_results above 1000 alike: the request fails validation and is not
\* handed to the provider; a max_results from 1 to 1000 is handed on as it is.
C12_OutOfRangeRejected ==
  \A t \in Tasks, a \in ArgumentChoices :
    (Parsed(t, a) /\ HasNumber(a) /\ OtherwiseValid(a)) =>
      IF AskedMax(a) < MAX_RESULTS_GE \/ AskedMax(a) > MAX_RESULTS_LE
      THEN Rejected(t)
      ELSE Dispatched(t) /\ frame[t].max_results = AskedMax(a)

\* A request with a query and a max_results of 1001 has been rejected.
C12_Witness ==
  \E t \in Tasks, a \in ArgumentChoices :
    /\ Parsed(t, a)
    /\ HasNumber(a)
    /\ OtherwiseValid(a)
    /\ AskedMax(a) = MAX_RESULTS_LE + 1
    /\ Rejected(t)

\* C12 as the specification words it: a max_results below 1 is rejected and
\* one above 1000 is handed on as 1000.
C12_AsWorded ==
  \A t \in Tasks, a \in ArgumentChoices :
    (Parsed(t, a) /\ HasNumber(a) /\ OtherwiseValid(a)) =>
      IF AskedMax(a) < MAX_RESULTS_GE
      THEN Rejected(t)
      ELSE Dispatched(t)
           /\ frame[t].max_results = Min(AskedMax(a), MAX_RESULTS_LE)

\* The arguments hold no query.
NoQuery(a) == IsNone(a.base) \/ IsNone(Get(a.base).query)

\* The arguments hold a max_results that is no number.
NonNumeric(a) ==
  /\ ~IsNone(a.base)
  /\ ~IsNone(Get(a.base).max_results)
  /\ ~IsNum(Get(Get(a.base).max_results))

\* The arguments without the keys that belong to no model.
WithoutUnknown(a) ==
  [a EXCEPT !.unknown = None,
            !.base = IF IsNone(@) THEN @
                     ELSE Some([Get(@) EXCEPT !.unknown = None])]

\* The call of task t stands where a call with the arguments b would stand.
SameOutcome(t, b) ==
  /\ pc[t] = dispatch(current_platform, b).pc
  /\ [frame[t] EXCEPT !.arguments = None] = dispatch(current_platform, b).frame

\* C13: a request without a query is an error and the provider is not
\* called; a request whose max_results is no number is an error too and the
\* provider is not called; keys that belong to no model change nothing.
C13_UntypedArguments ==
  \A t \in Tasks, a \in ArgumentChoices :
    Parsed(t, a) =>
      /\ NoQuery(a) => Rejected(t)
      /\ NonNumeric(a) => Rejected(t)
      /\ SameOutcome(t, WithoutUnknown(a))

\* A request with a query and a max_results that is a text has been rejected.
C13_Witness ==
  \E t \in Tasks, a \in ArgumentChoices :
    /\ Parsed(t, a)
    /\ ~NoQuery(a)
    /\ NonNumeric(a)
    /\ ~IsNone(a.unknown)
    /\ Rejected(t)

\* C13 as the specification words it: a max_results that is no number is
\* taken as 100.
C13_AsWorded ==
  \A t \in Tasks, a \in ArgumentChoices :
    Parsed(t, a) =>
      /\ NoQuery(a) => Rejected(t)
      /\ (NonNumeric(a) /\ OtherwiseValid(a)) =>
           Dispatched(t) /\ frame[t].max_results = MAX_RESULTS_DEFAULT
      /\ SameOutcome(t, WithoutUnknown(a))

\* The arguments without the bags that are not the active platform's.
WithoutOtherBags(platform, a) ==
  [a EXCEPT !.windows_params = None,
            !.base = IF IsNone(@) THEN @
                     ELSE Some([Get(@) EXCEPT
                            !.mac_params = IF platform = "darwin" THEN @ ELSE None,
                            !.linux_params = IF platform = "linux" THEN @ ELSE None])]

\* The windows_params of the arguments are absent or pass validation.
ValidWindowsBag(a) ==
  IsNone(a.windows_params) \/ Get(a.windows_params).sort_by \in WindowsSortOption

\* C14: on an external-process platform a request with a windows_params bag
\* that passes validation, or with the bag of the other external platform,
\* stands where the same request without that bag would stand; a
\* windows_params bag that does not pass validation makes the request fail.
C14_OtherBagsIgnored ==
  \A t \in Tasks, a \in ArgumentChoices :
    (Parsed(t, a) /\ current_platform \in {"linux", "darwin"}) =>
      IF ValidWindowsBag(a)
      THEN SameOutcome(t, WithoutOtherBags(current_platform, a))
      ELSE Rejected(t)

\* On Linux a request with a valid windows_params bag and a mac_params bag
\* goes on to the provider.
C14_Witness ==
  \E t \in Tasks, a \in ArgumentChoices :
    /\ Parsed(t, a)
    /\ current_platform = "linux"
    /\ ~IsNone(a.windows_params)
    /\ ValidWindowsBag(a)
    /\ ~IsNone(a.base)
    /\ ~IsNone(Get(a.base).mac_params)
    /\ pc[t] = "external_run"

\* C14 as the specification words it: whatever the windows_params bag holds,
\* the request stands where it would stand without the bag.
C14_AsWorded ==
  \A t \in Tasks, a \in ArgumentChoices :
    (Parsed(t, a) /\ current_platform \in {"linux", "darwin"}) =>
      SameOutcome(t, WithoutOtherBags(current_platform, a))

\* The flags of the external tool that a platform bag asks for.
BagFlags(platform, bag) ==
  IF platform = "linux"
  THEN (IF bag.ignore_case THEN {Lit("-i")} ELSE {})
       \cup (IF bag.regex_search THEN {Lit("-r")} ELSE {})
       \cup (IF bag.existing_files THEN {Lit("-e")} ELSE {})
       \cup (IF bag.count_only THEN {Lit("-c")} ELSE {})
  ELSE (IF bag.live_updates THEN {Lit("-live")} ELSE {})
       \cup (IF ~IsNone(bag.search_directory) THEN {Lit("-onlyin")} ELSE {})
       \cup (IF bag.literal_query THEN {Lit("-literal")} ELSE {})
       \cup (IF bag.interpret_query THEN {Lit("-interpret")} ELSE {})

\* C15: on an external-process platform a request with a platform bag has
\* its external command run, and every flag the bag sets is in the argument
\* vector of that command.
C15_BagInArgv ==
  \A t \in Tasks :
    (pc[t] = "done" /\ ~IsNone(frame[t].platform_params)) =>
      /\ ~IsNone(frame[t].proc)
      /\ \A flag \in BagFlags(current_platform, Get(frame[t].platform_params)) :
           \E k \in 1..Len(Get(frame[t].proc).cmd) :
             Get(frame[t].proc).cmd[k] = flag

\* C16: after a native search has finished, with results or with the error
\* of a failed query, the library holds the state Everything_Reset leaves,
\* and it holds that state when the next call sets its parameters.
C16_ResetAfterEveryCall ==
  \A t \in Tasks :
    /\ (pc[t] \in {"respond", "done"} /\ ~IsNone(frame[t].queried)) =>
         LibConfig(dll) = LibConfig(DllDefault)
    /\ pc[t] = "sdk_set" => LibConfig(dll) = LibConfig(DllDefault)

\* The query of task t has succeeded and its results are being read or have
\* been read.
Extracting(t) ==
  /\ pc[t] \in {"sdk_read", "respond", "done"}
  /\ frame[t].queried = Some(TRUE)

\* C17: in a native search over k = min(reported count, max_results) indices
\* the rows are those of the indices whose extraction did not fail, in the
\* order of the indices; nothing is raised, and the call returns k - |F| rows
\* when extraction failed for the indices F.
C17_FailuresSkipped ==
  \A t \in Tasks :
    Extracting(t) =>
      LET results == frame[t].results
          F == frame[t].skipped
      IN /\ IsNone(frame[t].raised)
         /\ F \subseteq 0..(frame[t].i - 1)
         /\ {results[j].index : j \in 1..Len(results)} = (0..(frame[t].i - 1)) \ F
         /\ Len(results) = frame[t].i - Cardinality(F)
         /\ \A j, k \in 1..Len(results) :
              j < k => results[j].index < results[k].index
         /\ pc[t] = "sdk_read" =>
              frame[t].num_results = Min(dll.num_results, frame[t].max_results)
         /\ frame[t].returned =>
              Len(results) = frame[t].num_results - Cardinality(F)

\* A search over two indices returned the row of the second after the
\* extraction of the first had failed.
C17_Witness ==
  \E t \in Tasks :
    /\ Extracting(t)
    /\ frame[t].returned
    /\ frame[t].num_results = 2
    /\ frame[t].skipped = {0}
    /\ Len(frame[t].results) = 1
    /\ frame[t].results[1].index = 1

\* A provider can be selected and constructed on host h: the OS is one of the
\* three and, on linux, locate or plocate is installed, on windows, the
\* library can be loaded.
CanConstruct(h) ==
  \/ h.system = "darwin"
  \/ h.system = "linux" /\ h.installed \cap {"plocate", "locate"} # {}
  \/ h.system = "windows" /\ "Everything64.dll" \in h.installed

\* The kind of provider that belongs to an OS identifier.
KindFor(system) ==
  CASE system = "darwin" -> "mac"
    [] system = "linux" -> "linux"
    [] system = "windows" -> "windows"
    [] OTHER -> "none"

\* Task t stands in search_files or has come back from it.
InProvider(t) ==
  \/ pc[t] \in {"sdk_set", "sdk_query", "sdk_read", "external_run"}
  \/ ~IsNone(frame[t].proc)
  \/ ~IsNone(frame[t].queried)

\* What holds of the provider in every state.
ProviderState ==
  /\ server = "serving" =>
       /\ CanConstruct(host)
       /\ ~IsNone(search_provider)
       /\ Get(search_provider).kind = KindFor(host.system)
       /\ current_platform = host.system
  /\ server # "serving" =>
       \A t \in Tasks :
         pc[t] = "idle" /\ IsNone(response[t]) /\ frame[t] = EmptyFrame
  /\ \A t \in Tasks :
       InProvider(t) =>
         /\ server = "serving"
         /\ pc[t] \in {"sdk_set", "sdk_query", "sdk_read"} =>
              Get(search_provider).kind = "windows"
         /\ pc[t] = "external_run" =>
              Get(search_provider).kind \in {"mac", "linux"}
         /\ ~IsNone(frame[t].proc) =>
              Get(frame[t].proc).cmd[1] = Lit(ToolName)

\* What holds of the provider in every step.
ProviderStep ==
  /\ search_provider' # search_provider =>
       /\ server = "starting"
       /\ IsNone(search_provider)
       /\ \A t \in Tasks : pc[t] = "idle" /\ pc'[t] = "idle"
  /\ server = "starting" /\ server' # "starting" =>
       server' = (IF CanConstruct(host) THEN "serving" ELSE "failed")
  /\ server = "serving" => server' = "serving"
  /\ server = "failed" => server' = "failed"

\* C18: the provider is selected by the OS identifier and constructed in the
\* one step that ends the start of the server, before any request is taken;
\* it is never replaced, and every search runs on it; when no provider can be
\* constructed the server fails, never serves, and handles no request.
C18_ProviderOnce == []ProviderState /\ [][ProviderStep]_vars

\* On a host with both tools the provider constructed at the start has run
\* its tool for one request while the next request has arrived.
C18_Witness ==
  /\ server = "serving"
  /\ host = [system |-> "linux", installed |-> {"plocate", "locate"}]
  /\ search_provider = Some(Provider("linux", "plocate", "plocate"))
  /\ pc[1] = "done" /\ ~IsNone(frame[1].proc)
  /\ pc[2] = "pending"

\* The one invocation of the backend by task t has failed: the tool could not
\* be started or exited non-zero, or the query of the library failed.
BackendFailed(t) ==
  /\ frame[t].attempts >= 1
  /\ ~IsNone(frame[t].raised)

\* C19: nothing is retried: within one request the tool is run, or the
\* library queried, at most once; when that invocation fails the call leaves
\* search_files at once with what was raised and the request gets the one
\* response "Search failed: " followed by the message of that error.
C19_NoRetry ==
  \A t \in Tasks :
    /\ frame[t].attempts <= 1
    /\ pc[t] = "sdk_read" => frame[t].attempts = 1
    /\ BackendFailed(t) =>
         /\ frame[t].attempts = 1
         /\ pc[t] \in {"respond", "done"}
         /\ ~frame[t].returned
         /\ frame[t].results = <<>>
         /\ pc[t] = "respond" => IsNone(response[t])
         /\ pc[t] = "done" =>
              response[t] = Some(FailedResponse(Get(frame[t].raised)))

\* The external tool of a request exited non-zero on its one run and the
\* request has its failure as response.
C19_Witness ==
  \E t \in Tasks :
    /\ BackendFailed(t)
    /\ ExitedNonZero(t)
    /\ frame[t].attempts = 1
    /\ pc[t] = "done"
    /\ ~IsNone(response[t])
    /\ Get(response[t]).kind = "failed"

\* The locate provider of task t has run its tool.
LocateRan(t) ==
  /\ Get(search_provider).kind = "linux"
  /\ pc[t] \in {"respond", "done"}
  /\ ~IsNone(frame[t].proc)

\* The regex flag of the tool the provider has found.
RegexFlag ==
  IF Get(search_provider).locate_type = "mlocate" THEN Lit("--regex") ELSE Lit("-r")

\* C20: the argument vector of the locate provider is the command, then "-i"
\* exactly when match_case is false, then the regex flag exactly when
\* match_regex is true, then the query as its last element, and nothing
\* else: the inputs determine every element of it.
C20_LocateArgv ==
  \A t \in Tasks :
    LocateRan(t) =>
      LET cmd == Get(frame[t].proc).cmd
          n == Len(cmd)
          insensitive == ~frame[t].params.match_case
          regex == frame[t].params.match_regex
      IN /\ n = 2 + (IF insensitive THEN 1 ELSE 0) + (IF regex THEN 1 ELSE 0)
         /\ cmd[1] = Lit(Get(search_provider).locate_cmd)
         /\ cmd[n] = Txt(frame[t].query)
         /\ insensitive <=> (n >= 3 /\ cmd[2] = Lit("-i"))
         /\ regex <=> (n >= 3 /\ cmd[n - 1] = RegexFlag)
         /\ \A k \in 2..(n - 1) : cmd[k] \in {Lit("-i"), RegexFlag}
         /\ \A j, k \in 2..(n - 1) :
              cmd[j] = Lit("-i") /\ cmd[k] = RegexFlag => j < k

\* mlocate has been run for a case-insensitive regex search of a query that
\* reads as a flag: both flags stand before the query.
C20_Witness ==
  \E t \in Tasks :
    /\ LocateRan(t)
    /\ ~frame[t].params.match_case
    /\ frame[t].params.match_regex
    /\ frame[t].query = <<"-", "i">>
    /\ Get(frame[t].proc).cmd =
         <<Lit("locate"), Lit("-i"), Lit("--regex"), Txt(<<"-", "i">>)>>

\* The text q holds the text sub somewhere.
HasSub(q, sub) ==
  \E i \in 1..(Len(q) - Len(sub) + 1) : SubSeq(q, i, i + Len(sub) - 1) = sub

\* Every run of separators in q is one forward slash, one backslash or two
\* backslashes: no two slashes meet, no slash meets a backslash, and no three
\* backslashes stand in a row.
SeparatorsApart(q) ==
  /\ ~HasSub(q, <<"/", "/">>)
  /\ ~HasSub(q, <<"\\", "/">>)
  /\ ~HasSub(q, <<"/", "\\">>)
  /\ ~HasSub(q, <<"\\", "\\", "\\">>)

\* C21: for every query the normalization of the native path gives a text
\* with no forward slash; the text has no double backslash, and is left
\* unchanged by another normalization, exactly when every run of separators
\* in the query is one forward slash or at most two backslashes.
C21_NormalizedOutput ==
  \A t \in Tasks :
    pc[t] = "normalized" =>
      LET out == frame[t].query IN
      /\ \A i \in 1..Len(out) : out[i] # "/"
      /\ IsNormalized(out) <=> SeparatorsApart(frame[t].asked)
      /\ (normalize_query(out) = out) <=> IsNormalized(out)

\* A query with a doubled backslash and a forward slash has been normalized
\* to a text with single backslashes.
C21_Witness ==
  \E t \in Tasks :
    /\ pc[t] = "normalized"
    /\ frame[t].asked = <<"\\", "\\", "a", "/">>
    /\ frame[t].query = <<"\\", "a", "\\">>
    /\ normalize_query(frame[t].query) = frame[t].query

\* C21 as it is worded: the normalization of every query has no forward
\* slash and no double backslash and is left unchanged by another
\* normalization.
C21_AsWorded ==
  \A t \in Tasks :
    pc[t] = "normalized" =>
      /\ IsNormalized(frame[t].query)
      /\ normalize_query(frame[t].query) = frame[t].query

====
